---- MODULE Spec2Model ----
(***************************************************************************)
(* Model of app.py: the retrieval (search_law), citation formatting        *)
(* (format_citation), the model call (ask_llm) and the Streamlit script    *)
(* run (main) of the Nepal Penal Code RAG assistant.                       *)
(*                                                                         *)
(* Python values of the metadata fields are tagged records: a JSON null is *)
(* None, a key that is not in the object is Missing, a string s is Str(s). *)
(* Texts built by the program (keys, citations, context) are TLA+ strings  *)
(* built with \o as the f-strings and joins of the code build them.  The   *)
(* raw model response is a sequence of tokens, the two markers being       *)
(* atomic tokens (neither marker overlaps itself or the other).            *)
(***************************************************************************)
EXTENDS Naturals, Integers, Sequences, FiniteSets, TLC

VARIABLES
    pc,               \* position of the Streamlit script / of the function under check
    files,            \* the two corpus artifacts on disk and the credential
    metadata,         \* main's `metadata` (list of records) once loaded
    emb_n,            \* number of vectors added to the faiss index
    slider,           \* value shown by the sidebar slider widget
    query,            \* content of the text input
    session_state,    \* st.session_state: user_query, retrieved_items, llm_context
    k_used,           \* the k search_law was called with
    indices,          \* indices[0] returned by index.search
    context,          \* return value of search_law
    calls,            \* the chat.completions.create calls of the current run
    answer,           \* raw response of ask_llm
    answer_text,      \* parsed answer block
    source_text,      \* parsed source block
    shown,            \* markdown blocks rendered in the answer area
    outcome,          \* how the current run ended
    item,             \* argument of format_citation
    citation,         \* result of format_citation
    prev_context      \* llm_context of the session when the current run began

vars == <<pc, files, metadata, emb_n, slider, query, session_state, k_used,
          indices, context, calls, answer, answer_text, source_text, shown,
          outcome, item, citation, prev_context>>

(* ------------------------------ bounds ------------------------------- *)

MaxRecords == 3     \* longest metadata array drawn for search_law
MaxEmb == 3         \* most vectors in the index drawn for search_law
MaxK == 3           \* largest k drawn for search_law
MaxResp == 3        \* longest raw response, in tokens

(* ------------------------- program constants -------------------------- *)

DEFAULT_K == 6
SliderMin == 3
SliderMax == 10
MAX_TOKENS == 350
TEMPERATURE == 0
LLM_MODEL == "llama-3.1-8b-instant"

(* --------------------------- Python values ---------------------------- *)

None == [tag |-> "none", s |-> ""]
Missing == [tag |-> "missing", s |-> ""]
Str(s) == [tag |-> "str", s |-> s]

\* dict.get(key, default): the default only when the key is not in the dict
Get(it, f, default) == IF it[f].tag = "missing" THEN default ELSE it[f]

\* truth value of `item.get(f)`: None and '' are falsy
Truthy(v) == v.tag = "str" /\ v.s # ""

\* how an f-string renders a value
PyStr(v) == IF v.tag = "str" THEN v.s ELSE "None"

\* list[idx] of Python, idx possibly negative; <<>> stands for IndexError
PyIndex(list, idx) ==
    IF idx >= 0 /\ idx < Len(list) THEN <<list[idx + 1]>>
    ELSE IF idx < 0 /\ Len(list) + idx >= 0 THEN <<list[Len(list) + idx + 1]>>
    ELSE <<>>

\* sep.join(parts)
RECURSIVE Join(_, _)
Join(parts, sep) ==
    IF parts = <<>> THEN ""
    ELSE IF Len(parts) = 1 THEN parts[1]
    ELSE parts[1] \o sep \o Join(Tail(parts), sep)

(* ---------------------------- search_law ------------------------------ *)

Item(ch, sec, sub, txt) ==
    [chapter |-> ch, section |-> sec, subsection |-> sub, text |-> txt]

\* section_key = f"{item.get('section', '')}-{item.get('subsection', '')}"
SectionKey(it) ==
    PyStr(Get(it, "section", Str(""))) \o "-" \o PyStr(Get(it, "subsection", Str("")))

RetainFront(retrieved, it) == <<it>> \o retrieved

\* retrieved_items.append(item)
Retain(retrieved, it) == Append(retrieved, it)

\* the loop over indices[0]; acc = [raised, seen, items]
RECURSIVE DedupLoop(_, _, _)
DedupLoop(idxs, meta, acc) ==
    IF idxs = <<>> \/ acc.raised THEN acc
    ELSE LET idx == Head(idxs)
             got == PyIndex(meta, idx)
         IN  IF ~(idx < Len(meta)) THEN DedupLoop(Tail(idxs), meta, acc)
             ELSE IF got = <<>> THEN [acc EXCEPT !.raised = TRUE]
             ELSE LET it == got[1]
                      key == SectionKey(it)
                  IN  IF key \notin acc.seen
                      THEN DedupLoop(Tail(idxs), meta,
                               [raised |-> FALSE,
                                seen |-> acc.seen \cup {key},
                                items |-> Retain(acc.items, it)])
                      ELSE DedupLoop(Tail(idxs), meta, acc)

\* `item['subsection'] not in [None, '', 'null']`
SubsectionListed(v) == v.tag = "none" \/ (v.tag = "str" /\ v.s \in {"", "null"})

CitationPartsKeepNull(it) ==
    (IF Truthy(Get(it, "chapter", None)) THEN <<"Chapter " \o it.chapter.s>> ELSE <<>>)
    \o (IF Truthy(Get(it, "section", None)) THEN <<"Section " \o it.section.s>> ELSE <<>>)
    \o (IF Truthy(Get(it, "subsection", None))
        THEN <<"Sub-section " \o it.subsection.s>> ELSE <<>>)

\* the three `if item.get(...)` appends, the same in search_law and format_citation
CitationParts(it) ==
    (IF Truthy(Get(it, "chapter", None)) THEN <<"Chapter " \o it.chapter.s>> ELSE <<>>)
    \o (IF Truthy(Get(it, "section", None)) THEN <<"Section " \o it.section.s>> ELSE <<>>)
    \o (IF Truthy(Get(it, "subsection", None)) /\ ~SubsectionListed(it.subsection)
        THEN <<"Sub-section " \o it.subsection.s>> ELSE <<>>)

NOT_AVAILABLE == "Citation not available"

\* format_citation(item)
format_citation(it) ==
    IF CitationParts(it) # <<>> THEN Join(CitationParts(it), ", ") ELSE NOT_AVAILABLE

ChunkWithFallback(it) ==
    "[" \o format_citation(it) \o "] " \o PyStr(Get(it, "text", Str("")))

\* f"[{citation}] {item.get('text', '')}" with citation = ", ".join(citation_parts)
Chunk(it) ==
    "[" \o Join(CitationParts(it), ", ") \o "] " \o PyStr(Get(it, "text", Str("")))

Chunks(items) == [i \in 1..Len(items) |-> Chunk(items[i])]

\* "\n\n".join(chunks)
ContextOf(items) == Join(Chunks(items), "\n\n")

\* search_law after index.search returned idxs: [raised, items, context]
SearchLawResult(meta, idxs) ==
    LET r == DedupLoop(idxs, meta, [raised |-> FALSE, seen |-> {}, items |-> <<>>])
    IN  [raised |-> r.raised, items |-> r.items, context |-> ContextOf(r.items)]

\* index.search(q_emb, k)[1][0] of a flat index holding n vectors: the nearest
\* min(k, n) labels, all different, then -1 for the places it could not fill
NeighbourLists(n, k) ==
    LET m == IF k < n THEN k ELSE n
    IN  { s \in [1..k -> (-1)..(n - 1)] :
            /\ \A i \in 1..m : s[i] >= 0
            /\ \A i \in (m + 1)..k : s[i] = -1
            /\ \A i, j \in 1..m : i # j => s[i] # s[j] }

(* ------------------------------ ask_llm ------------------------------- *)

PROMPT_RULES == "\nYou are an AI LEGAL ASSISTANT ...\nAUTHORITATIVE LAW TEXT\n\n"
PROMPT_QUESTION == "\n\nUSER QUESTION\n\n"
PROMPT_FORMAT == "\n\nRESPONSE FORMAT (STRICT)\n\nAnswer:\n...\n\nSource:\n...\n"
REFUSAL == "The provided sections of the National Penal Code, 2017 do not mention this."

\* the f-string `prompt`
Prompt(ctx, question) ==
    PROMPT_RULES \o ctx \o PROMPT_QUESTION \o question \o PROMPT_FORMAT

\* the arguments of client.chat.completions.create
CreateCall(ctx, question) ==
    [model |-> LLM_MODEL,
     messages |-> << [role |-> "user", content |-> Prompt(ctx, question)] >>,
     temperature |-> TEMPERATURE,
     max_tokens |-> MAX_TOKENS]

(* ------------------------ the parse of the response ------------------- *)

ANSWER == "Answer:"
SOURCE == "Source:"
SPACE == " "
NOT_SPECIFIED == "Not specified"

\* `marker in text`
Contains(text, marker) == \E i \in 1..Len(text) : text[i] = marker

\* text.split(sep): the pieces between all the occurrences of sep
RECURSIVE SplitFrom(_, _, _)
SplitFrom(text, sep, piece) ==
    IF text = <<>> THEN <<piece>>
    ELSE IF Head(text) = sep THEN <<piece>> \o SplitFrom(Tail(text), sep, <<>>)
    ELSE SplitFrom(Tail(text), sep, Append(piece, Head(text)))

Split(text, sep) == SplitFrom(text, sep, <<>>)

\* text.strip()
RECURSIVE LStrip(_)
LStrip(text) ==
    IF text # <<>> /\ Head(text) = SPACE THEN LStrip(Tail(text)) ELSE text

RECURSIVE RStrip(_)
RStrip(text) ==
    IF text # <<>> /\ text[Len(text)] = SPACE
    THEN RStrip(SubSeq(text, 1, Len(text) - 1)) ELSE text

Strip(text) == RStrip(LStrip(text))

\* answer.split("Answer:")[1].split("Source:")[0].strip()
ParseAnswerText(raw) == Strip(Split(Split(raw, ANSWER)[2], SOURCE)[1])

\* answer.split("Source:")[1].strip() if "Source:" in answer else ""
ParseSourceText(raw) ==
    IF Contains(raw, SOURCE) THEN Strip(Split(raw, SOURCE)[2]) ELSE <<>>

BothMarkers(raw) == Contains(raw, ANSWER) /\ Contains(raw, SOURCE)

\* the st.markdown calls of the answer area
Rendered(raw) ==
    IF BothMarkers(raw)
    THEN <<ParseAnswerText(raw)>>
         \o (IF ParseSourceText(raw) # <<>> /\ ~Contains(ParseSourceText(raw), NOT_SPECIFIED)
             THEN << <<"---">>, <<"**Source:** ">> \o ParseSourceText(raw) >>
             ELSE <<>>)
    ELSE <<raw>>

(* ------------------------------ inputs -------------------------------- *)

ItA == Item(Str("5"), Str("41"), None, Str("Murder is..."))
ItB == Item(Str("5"), Str("41"), Str(""), Str("Murder (copy)"))
ItC == Item(Str("6"), Str("41"), None, Str("Murder (other chapter)"))
ItD == Item(Str("5"), Str("41"), Str("1"), Str("Exception..."))
ItE == Item(None, Str("99"), Str("null"), Str("Theft is..."))
ItF == Item(None, None, None, Str("Preamble"))
ItG == Item(Str("7"), Str("41"), Str("1-2"), Str("Clause 1-2 of 41"))
ItH == Item(Str("7"), Str("41-1"), Str("2"), Str("Clause 2 of 41-1"))

\* records drawn for search_law
SearchItems == {ItA, ItB, ItC, ItD, ItE, ItF, ItG, ItH}

\* records drawn for format_citation
CiteItems ==
    { Item(ch, sec, sub, Str("T")) :
        ch \in {None, Missing, Str(""), Str("5"), Str("null")},
        sec \in {None, Missing, Str(""), Str("41")},
        sub \in {None, Missing, Str(""), Str("null"), Str("1")} }

SeqsUpTo(S, n) == UNION { [1..m -> S] : m \in 0..n }

\* raw responses drawn for the parse
Tokens == {ANSWER, SOURCE, SPACE, NOT_SPECIFIED, "text"}
Responses == SeqsUpTo(Tokens, MaxResp)

\* responses the model returns in a session
LLMReplies ==
    { <<ANSWER, SPACE, "text", SPACE, SOURCE, SPACE, "Section 41">>,
      <<ANSWER, SPACE, REFUSAL, SPACE, SOURCE, SPACE, NOT_SPECIFIED>>,
      <<"text">>,
      <<ANSWER, "text", SOURCE, "Section 41", SOURCE, "Section 99">> }

\* the two artifacts on disk: nemb vectors, the records of the metadata file
Corpora ==
    { [nemb |-> 3, meta |-> <<ItA, ItD, ItE>>],
      [nemb |-> 2, meta |-> <<ItA, ItB>>],
      [nemb |-> 3, meta |-> <<ItF, ItA>>],
      [nemb |-> 1, meta |-> <<ItD, ItC>>],
      [nemb |-> 0, meta |-> <<>>] }

Files ==
    { [ok |-> TRUE, api_key |-> a, nemb |-> c.nemb, meta |-> c.meta] :
        a \in BOOLEAN, c \in Corpora }
    \cup { [ok |-> FALSE, api_key |-> TRUE, nemb |-> 0, meta |-> <<>>] }

Questions == {"What constitutes murder?", "What is theft?"}

(* --------------------------- session state ---------------------------- *)

\* st.session_state.get(key, default)
SessionGet(ss, key, default) == IF key \in DOMAIN ss THEN ss[key] ELSE default

\* main's "Initialize session state"
InitialSession == [user_query |-> "", retrieved_items |-> <<>>, llm_context |-> ""]

StoreResultItemsOnly(ss, items, ctx) == [ss EXCEPT !.retrieved_items = items]

\* search_law's "Store in session state for later use"
StoreResult(ss, items, ctx) ==
    [ss EXCEPT !.retrieved_items = items, !.llm_context = ctx]

AskFailureAsRefusal(cs, req) ==
    [calls |-> Append(cs, [req |-> req, raised |-> TRUE]),
     propagates |-> FALSE,
     answer |-> <<ANSWER, SPACE, REFUSAL, SPACE, SOURCE, SPACE, NOT_SPECIFIED>>]

\* client.chat.completions.create raises: neither ask_llm nor main catches it
AskFailure(cs, req) ==
    [calls |-> Append(cs, [req |-> req, raised |-> TRUE]),
     propagates |-> TRUE,
     answer |-> <<>>]

(* ------------------------------ actions ------------------------------- *)

NoRunOutput ==
    /\ k_used' = 0
    /\ indices' = <<>>
    /\ context' = ""
    /\ calls' = <<>>
    /\ answer' = <<>>
    /\ answer_text' = <<>>
    /\ source_text' = <<>>
    /\ shown' = <<>>

\* main up to the sidebar: session defaults, load_embeddings, the credential
MainLoad ==
    /\ pc = "start"
    /\ session_state' = InitialSession
    /\ IF ~files.ok
       THEN /\ pc' = "stopped"
            /\ outcome' = "load_error"
            /\ UNCHANGED <<metadata, emb_n>>
       ELSE /\ metadata' = files.meta
            /\ emb_n' = files.nemb
            /\ IF ~files.api_key
               THEN pc' = "stopped" /\ outcome' = "no_api_key"
               ELSE pc' = "ready" /\ outcome' = "none"
    /\ UNCHANGED <<files, slider, query, k_used, indices, context, calls, answer,
                   answer_text, source_text, shown, item, citation, prev_context>>

\* the user drags the slider of render_sidebar; the script reruns without a click
MoveSlider(v) ==
    /\ pc = "ready"
    /\ v # slider
    /\ slider' = v
    /\ outcome' = "none"
    /\ NoRunOutput
    /\ UNCHANGED <<pc, files, metadata, emb_n, query, session_state, item, citation, prev_context>>

\* the user edits the text input; the script reruns without a click
TypeQuery(q) ==
    /\ pc = "ready"
    /\ q # query
    /\ query' = q
    /\ outcome' = "none"
    /\ NoRunOutput
    /\ UNCHANGED <<pc, files, metadata, emb_n, slider, session_state, item, citation, prev_context>>

\* a sample-question button: user_query is set and the input is rebuilt from it
SampleQuestion(q) ==
    /\ pc = "ready"
    /\ session_state' = [session_state EXCEPT !.user_query = q]
    /\ query' = q
    /\ outcome' = "none"
    /\ NoRunOutput
    /\ UNCHANGED <<pc, files, metadata, emb_n, slider, item, citation, prev_context>>

\* the button with an empty input
ClickSearchEmpty ==
    /\ pc = "ready"
    /\ query = ""
    /\ outcome' = "warning"
    /\ NoRunOutput
    /\ UNCHANGED <<pc, files, metadata, emb_n, slider, query, session_state, item, citation, prev_context>>

\* the button with a question: main up to the return of search_law
ClickSearch ==
    /\ pc = "ready"
    /\ query # ""
    /\ LET k == SessionGet(session_state, "k_value", DEFAULT_K)
           ss == [session_state EXCEPT !.user_query = query]
       IN  /\ k_used' = k
           /\ \E nb \in NeighbourLists(emb_n, k) :
                LET r == SearchLawResult(metadata, nb)
                IN  /\ indices' = nb
                    /\ IF r.raised
                       THEN /\ session_state' = ss
                            /\ context' = ""
                            /\ outcome' = "search_exception"
                            /\ pc' = "ready"
                       ELSE /\ session_state' = StoreResult(ss, r.items, r.context)
                            /\ context' = r.context
                            /\ outcome' = "none"
                            /\ pc' = "searched"
    /\ calls' = <<>>
    /\ answer' = <<>>
    /\ answer_text' = <<>>
    /\ source_text' = <<>>
    /\ shown' = <<>>
    /\ prev_context' = session_state.llm_context
    /\ UNCHANGED <<files, metadata, emb_n, slider, query, item, citation>>

\* the parse and the display of a response
ShowAnswer(raw) ==
    /\ answer' = raw
    /\ answer_text' = IF BothMarkers(raw) THEN ParseAnswerText(raw) ELSE <<>>
    /\ source_text' = IF BothMarkers(raw) THEN ParseSourceText(raw) ELSE <<>>
    /\ shown' = Rendered(raw)

\* ask_llm returns a response: main parses and shows it
AskLLMReturn(raw) ==
    /\ pc = "searched"
    /\ calls' = Append(calls, [req |-> CreateCall(session_state.llm_context, query),
                               raised |-> FALSE])
    /\ ShowAnswer(raw)
    /\ outcome' = "answered"
    /\ pc' = "ready"
    /\ UNCHANGED <<files, metadata, emb_n, slider, query, session_state, k_used,
                   indices, context, item, citation, prev_context>>

\* the call of ask_llm raises
AskLLMRaise ==
    /\ pc = "searched"
    /\ LET f == AskFailure(calls, CreateCall(session_state.llm_context, query))
       IN  /\ calls' = f.calls
           /\ IF f.propagates
              THEN /\ outcome' = "llm_exception"
                   /\ UNCHANGED <<answer, answer_text, source_text, shown>>
              ELSE /\ outcome' = "answered"
                   /\ ShowAnswer(f.answer)
    /\ pc' = "ready"
    /\ UNCHANGED <<files, metadata, emb_n, slider, query, session_state, k_used,
                   indices, context, item, citation, prev_context>>

Idle ==
    /\ slider = DEFAULT_K
    /\ query = ""
    /\ session_state = InitialSession
    /\ k_used = 0
    /\ indices = <<>>
    /\ context = ""
    /\ calls = <<>>
    /\ answer = <<>>
    /\ answer_text = <<>>
    /\ source_text = <<>>
    /\ shown = <<>>
    /\ outcome = "none"
    /\ item = ItA
    /\ citation = ""
    /\ prev_context = ""

Init ==
    /\ pc = "start"
    /\ files \in Files
    /\ metadata = <<>>
    /\ emb_n = 0
    /\ Idle

Next ==
    \/ MainLoad
    \/ \E v \in SliderMin..SliderMax : MoveSlider(v)
    \/ \E q \in Questions \cup {""} : TypeQuery(q)
    \/ \E q \in Questions : SampleQuestion(q)
    \/ ClickSearchEmpty
    \/ ClickSearch
    \/ \E raw \in LLMReplies : AskLLMReturn(raw)
    \/ AskLLMRaise

Spec == Init /\ [][Next]_vars

(* ------------------- search_law as a function ------------------------- *)

InitSearch ==
    /\ pc = "search_call"
    /\ files = [ok |-> TRUE, api_key |-> TRUE, nemb |-> 0, meta |-> <<>>]
    /\ metadata \in SeqsUpTo(SearchItems, MaxRecords)
    /\ emb_n \in 0..MaxEmb
    /\ Idle

\* search_law(query, sbert, index, metadata, k)
SearchLawCall(k) ==
    /\ pc = "search_call"
    /\ k_used' = k
    /\ \E nb \in NeighbourLists(emb_n, k) :
         LET r == SearchLawResult(metadata, nb)
         IN  /\ indices' = nb
             /\ IF r.raised
                THEN /\ pc' = "search_raised"
                     /\ UNCHANGED <<session_state, context>>
                ELSE /\ pc' = "search_done"
                     /\ session_state' = StoreResult(session_state, r.items, r.context)
                     /\ context' = r.context
    /\ UNCHANGED <<files, metadata, emb_n, slider, query, calls, answer, answer_text,
                   source_text, shown, outcome, item, citation, prev_context>>

NextSearch == \E k \in 1..MaxK : SearchLawCall(k)

SpecSearch == InitSearch /\ [][NextSearch]_vars

(* ------------------- the parse as a function -------------------------- *)

InitParse ==
    /\ pc = "parse_call"
    /\ files = [ok |-> TRUE, api_key |-> TRUE, nemb |-> 0, meta |-> <<>>]
    /\ metadata = <<>>
    /\ emb_n = 0
    /\ slider = DEFAULT_K
    /\ query = ""
    /\ session_state = InitialSession
    /\ k_used = 0
    /\ indices = <<>>
    /\ context = ""
    /\ calls = <<>>
    /\ answer \in Responses
    /\ answer_text = <<>>
    /\ source_text = <<>>
    /\ shown = <<>>
    /\ outcome = "none"
    /\ item = ItA
    /\ citation = ""
    /\ prev_context = ""

\* main's "Parse answer for better display"
ParseResponse ==
    /\ pc = "parse_call"
    /\ ShowAnswer(answer)
    /\ pc' = "parse_done"
    /\ UNCHANGED <<files, metadata, emb_n, slider, query, session_state, k_used,
                   indices, context, calls, outcome, item, citation, prev_context>>

NextParse == ParseResponse

SpecParse == InitParse /\ [][NextParse]_vars

(* ---------------- format_citation as a function ----------------------- *)

InitCite ==
    /\ pc = "cite_call"
    /\ files = [ok |-> TRUE, api_key |-> TRUE, nemb |-> 0, meta |-> <<>>]
    /\ metadata = <<>>
    /\ emb_n = 0
    /\ slider = DEFAULT_K
    /\ query = ""
    /\ session_state = InitialSession
    /\ k_used = 0
    /\ indices = <<>>
    /\ context = ""
    /\ calls = <<>>
    /\ answer = <<>>
    /\ answer_text = <<>>
    /\ source_text = <<>>
    /\ shown = <<>>
    /\ outcome = "none"
    /\ item \in CiteItems
    /\ citation = ""
    /\ prev_context = ""

FormatCitation ==
    /\ pc = "cite_call"
    /\ citation' = format_citation(item)
    /\ pc' = "cite_done"
    /\ UNCHANGED <<files, metadata, emb_n, slider, query, session_state, k_used,
                   indices, context, calls, answer, answer_text, source_text, shown,
                   outcome, item, prev_context>>

NextCite == FormatCitation

SpecCite == InitCite /\ [][NextCite]_vars

(* ------------------------- what the claims say ------------------------ *)

Kept == session_state.retrieved_items

\* a field that holds a non-empty string
Present(v) == v.tag = "str" /\ v.s # ""

\* a subsection that is not one of the three spellings of "no subsection"
PresentSub(v) == Present(v) /\ v.s # "null"

NormSub(v) == IF PresentSub(v) THEN v.s ELSE "absent"

\* the (section, subsection) key with the subsection normalized
NormKey(it) == <<Get(it, "section", Str("")), NormSub(it.subsection)>>

\* the (section, subsection) pair as the record holds it
RawPair(it) == <<Get(it, "section", Str("")), Get(it, "subsection", Str(""))>>

\* the records of the labels the search filled, nearest first
RECURSIVE TrueNeighbours(_, _)
TrueNeighbours(idxs, meta) ==
    IF idxs = <<>> THEN <<>>
    ELSE (IF Head(idxs) >= 0 /\ Head(idxs) < Len(meta)
          THEN <<meta[Head(idxs) + 1]>> ELSE <<>>)
         \o TrueNeighbours(Tail(idxs), meta)

\* the record the loop reads at each place of the list, nearest first: an
\* unfilled place (-1) is read as the last record, a label past the end is skipped
RECURSIVE ReadNeighbours(_, _)
ReadNeighbours(idxs, meta) ==
    IF idxs = <<>> THEN <<>>
    ELSE (IF Head(idxs) >= 0 /\ Head(idxs) < Len(meta) THEN <<meta[Head(idxs) + 1]>>
          ELSE IF Head(idxs) = -1 /\ Len(meta) > 0 THEN <<meta[Len(meta)]>>
          ELSE <<>>)
         \o ReadNeighbours(Tail(idxs), meta)

RECURSIVE IsSubseq(_, _)
IsSubseq(a, b) ==
    IF a = <<>> THEN TRUE
    ELSE IF b = <<>> THEN FALSE
    ELSE IF Head(a) = Head(b) THEN IsSubseq(Tail(a), Tail(b))
    ELSE IsSubseq(a, Tail(b))

\* the label of a record, part by part; `none` is what stands for no part at all
ExpectedLabel(it, none) ==
    LET c == Present(it.chapter)
        s == Present(it.section)
        b == PresentSub(it.subsection)
        C == "Chapter " \o it.chapter.s
        S == "Section " \o it.section.s
        B == "Sub-section " \o it.subsection.s
    IN  CASE c /\ s /\ b -> C \o ", " \o S \o ", " \o B
          [] c /\ s /\ ~b -> C \o ", " \o S
          [] c /\ ~s /\ b -> C \o ", " \o B
          [] c /\ ~s /\ ~b -> C
          [] ~c /\ s /\ b -> S \o ", " \o B
          [] ~c /\ s /\ ~b -> S
          [] ~c /\ ~s /\ b -> B
          [] OTHER -> none

ExpectedBlock(it) == "[" \o ExpectedLabel(it, "") \o "] " \o it.text.s

\* the first n blocks, each after the first preceded by one blank line
RECURSIVE ExpectedContext(_, _)
ExpectedContext(items, n) ==
    IF n = 0 THEN ""
    ELSE IF n = 1 THEN ExpectedBlock(items[1])
    ELSE ExpectedContext(items, n - 1) \o "\n\n" \o ExpectedBlock(items[n])

FirstIndex(text, marker) ==
    CHOOSE i \in 1..Len(text) : text[i] = marker /\ \A j \in 1..(i - 1) : text[j] # marker

\* text without its leading and trailing whitespace
Trimmed(text) ==
    LET solid == { i \in 1..Len(text) : text[i] # SPACE }
    IN  IF solid = {} THEN <<>>
        ELSE SubSeq(text, CHOOSE i \in solid : \A j \in solid : i <= j,
                          CHOOSE i \in solid : \A j \in solid : i >= j)

(* C1: the hits search_law retains hold no two records with the same       *)
(* (section, normalized subsection) key, and the retained record of a key  *)
(* is the nearest neighbour that has this key.  Stated for an index that   *)
(* holds one vector per record and a search that filled every place.       *)
C1_DedupNormalized ==
    (pc = "search_done" /\ emb_n = Len(metadata) /\ \A p \in 1..Len(indices) : indices[p] >= 0) =>
        LET nbs == TrueNeighbours(indices, metadata)
        IN  /\ \A i, j \in 1..Len(Kept) :
                 i # j => NormKey(Kept[i]) # NormKey(Kept[j])
            /\ \A i \in 1..Len(Kept) :
                 \E p \in 1..Len(nbs) :
                    /\ nbs[p] = Kept[i]
                    /\ \A q \in 1..(p - 1) : NormKey(nbs[q]) # NormKey(Kept[i])

C3_ParseFirstMarkers ==
    (pc = "parse_done" /\ BothMarkers(answer)) =>
        LET a == FirstIndex(answer, ANSWER)
            s == FirstIndex(answer, SOURCE)
        IN  /\ a < s => answer_text = Trimmed(SubSeq(answer, a + 1, s - 1))
            /\ source_text = Trimmed(SubSeq(answer, s + 1, Len(answer)))

(* C4: format_citation returns the parts of the fields that are present,   *)
(* in the order chapter, section, sub-section, joined by ", ", and the     *)
(* "not available" marker when no field is present.                        *)
C4_CitationFormat ==
    pc = "cite_done" => citation = ExpectedLabel(item, "Citation not available")

C4_Witness ==
    /\ pc = "cite_done"
    /\ item.chapter = Str("5") /\ item.section = Str("41") /\ item.subsection = Str("null")
    /\ citation = "Chapter 5, Section 41"

(* C5: the context is the blocks "[citation] text" of the retained hits in *)
(* retained order, one blank line between two blocks and none before or    *)
(* after; a hit without citation parts gives "[] text"; no hit gives "".   *)
C5_ContextAssembly ==
    pc = "search_done" =>
        /\ context = ExpectedContext(Kept, Len(Kept))
        /\ session_state.llm_context = context
        /\ Kept = <<>> => context = ""

C5_Witness ==
    /\ pc = "search_done"
    /\ Kept = <<ItF, ItA>>
    /\ context = "[] Preamble\n\n[Chapter 5, Section 41] Murder is..."

(* C6: when the number of vectors differs from the number of records, no   *)
(* search_law and no model call ever happens.                              *)
C6_MismatchNeverServes ==
    (files.ok /\ files.nemb # Len(files.meta)) => (k_used = 0 /\ calls = <<>>)

(* C7: when the model call raises, the run ends with the exception: no     *)
(* answer is parsed or shown, and the call was made once.                  *)
C7_FailureSurfaced ==
    \A i \in 1..Len(calls) :
        calls[i].raised =>
            /\ outcome = "llm_exception"
            /\ pc = "ready"
            /\ Len(calls) = 1
            /\ answer = <<>> /\ answer_text = <<>> /\ source_text = <<>>
            /\ shown = <<>>

C7_Witness == calls # <<>> /\ calls[1].raised /\ outcome = "llm_exception"

(* C8: the model call of a run carries one user message, whose content is  *)
(* the prompt built from the context search_law returned in this run and   *)
(* from this run's question.                                               *)
C8_StatelessCall ==
    calls # <<>> =>
        /\ Len(calls) = 1
        /\ Len(calls[1].req.messages) = 1
        /\ calls[1].req.messages[1].role = "user"
        /\ calls[1].req.messages[1].content =
              PROMPT_RULES \o context \o PROMPT_QUESTION \o query \o PROMPT_FORMAT
        /\ context = ExpectedContext(SearchLawResult(metadata, indices).items,
                                     Len(SearchLawResult(metadata, indices).items))

C8_Witness ==
    /\ calls # <<>>
    /\ prev_context # ""
    /\ prev_context # context
    /\ session_state.user_query = query

(* C9: every (section, subsection) pair found among the neighbours has     *)
(* exactly one retained hit: records whose pairs differ are never merged.  *)
C9_NoMerge ==
    pc = "search_done" =>
        LET nbs == TrueNeighbours(indices, metadata)
        IN  \A p \in 1..Len(nbs) :
                Cardinality({ i \in 1..Len(Kept) : RawPair(Kept[i]) = RawPair(nbs[p]) }) = 1

(* C10: the k search_law was called with is the value the slider shows.    *)
C10_SliderDrivesK ==
    pc = "searched" => k_used = slider

====
